---- MODULE Spec2Model ----
(***************************************************************************)
(* Model of trustyai.utils.tyrus: the Tyrus dashboard assistant.           *)
(* One Tyrus object is constructed and run() is called on it once.  The    *)
(* explainers, pandas, numpy and bokeh are the environment: an explainer   *)
(* returns an arbitrary list of byproduct counterfactuals or raises,       *)
(* np.random.choice returns an arbitrary index vector, the plotting calls  *)
(* either return or raise.                                                 *)
(*                                                                         *)
(* Numbers: the display fraction is a rational with denominator FracDen;   *)
(* feature and output values are thousandths.  Text is a sequence of       *)
(* tokens, so that string concatenation and "".join are \o.                *)
(***************************************************************************)
EXTENDS Integers, Sequences, FiniteSets, TLC

\* ---- bounds of the model ------------------------------------------------
\* Most byproduct counterfactuals the two explainers return together.
MaxCfs == 2
\* Number of distinct prediction objects an explainer may return.
NumPredictions == 2

\* ---- program constants ---------------------------------------------------
\* The display fraction is counted in units of 1/FracDen (0.1 = 1/10).
FracDen == 10
\* kwargs.get("fraction_counterfactuals_to_display", 0.1), in units of 1/FracDen
DefaultFraction == 1

\* ---- values and text -----------------------------------------------------
\* A value: s is its type tag or its text, n its magnitude.
Text(s) == [s |-> s, n |-> 0]
Float(milli) == [s |-> "float", n |-> milli]
Whole(k) == [s |-> "int", n |-> k]
Empty == Text("")

\* "{:.2f}".format(value) for floats (thousandths to hundredths), else value
formatter(value) ==
    IF value.s = "float"
    THEN [s |-> "str.2f", n |-> (value.n + 5) \div 10]
    ELSE value

\* one <tr> of the changed-feature table: name, original value, new value
tooltip_format(row_values) ==
    [fmt |-> "tr_changed", name |-> row_values[1],
     from |-> row_values[2], to |-> row_values[3]]

\* one <tr> with two filled cells; format() ignores the values after the 2nd
original_feature_tooltip_format(row_values) ==
    [fmt |-> "tr_original", name |-> row_values[1],
     from |-> row_values[2], to |-> Empty]

\* Wrap the feature tooltips into a full counterfactual tooltip.
\* output_name is the column name: [name |-> output, from |-> original value]
format_cf_tooltip(raw_tooltip, output_name, output_val, unchanged) ==
    IF unchanged
    THEN <<[fmt |-> "h3", name |-> Text("Original Input"),
            from |-> Empty, to |-> Empty],
           [fmt |-> "output", name |-> output_name.name,
            from |-> Empty, to |-> formatter(output_val)],
           [fmt |-> "table", name |-> Empty, from |-> Empty, to |-> Empty]>>
         \o raw_tooltip
         \o <<[fmt |-> "/table", name |-> Empty, from |-> Empty, to |-> Empty]>>
    ELSE <<[fmt |-> "h3", name |-> Text("Counterfactual"),
            from |-> Empty, to |-> Empty],
           [fmt |-> "change", name |-> output_name.name,
            from |-> output_name.from, to |-> formatter(output_val)],
           [fmt |-> "table", name |-> Empty, from |-> Empty, to |-> Empty]>>
         \o raw_tooltip
         \o <<[fmt |-> "/table", name |-> Empty, from |-> Empty, to |-> Empty]>>

\* ---- the observation and the predictions ---------------------------------
\* self.inputs.getFeatures(): names and values of the explained observation
FeatureNames == <<"f1", "f2">>
NumFeatures == Len(FeatureNames)
InputFeatureValue(i) == IF i = 1 THEN Float(1234) ELSE Whole(3)

\* self.outputs.getOutputs(): names and values of the explained outputs
OutputNames == <<"y1", "y2">>
NumOutputs == Len(OutputNames)
OutputValue(j) == Float(500 * j + 4)

\* The prediction objects the explainers hand back as keys of their
\* counterfactual maps.  Predictions 2k-1 and 2k have the same outputs and
\* differ in feature f1 only.
Predictions == 1..NumPredictions
PredictionOutput(p, j) == Float(1000 * ((p + 1) \div 2) + 100 * j)
PredictionFeature(p, i) == IF i = 1 THEN Float(1000 * p + 7) ELSE Whole(4)

\* preservation masks: TRUE = feature kept, FALSE = feature changed
Masks == [1..NumFeatures -> BOOLEAN]
\* an entry of getAvailableCFs(): getKey() a prediction, getValue() a mask
Entries == [key : Predictions, value : Masks]

SeqsUpTo(S, n) == UNION {[1..m -> S] : m \in 0..n}

NoArg == FracDen * FracDen
\* the values tried for the keyword argument; "omitted" is NoArg
FractionArgs ==
    {NoArg, 0 - (FracDen \div 2), 0, FracDen \div 2, FracDen,
     FracDen + (FracDen \div 2)}

Min(a, b) == IF b < a THEN b ELSE a
Max(a, b) == IF b > a THEN b ELSE a

VARIABLES
    pc,          \* position of the caller / of run()
    kwargs,      \* history: the constructor's fraction argument, NoArg if omitted
    fraction_counterfactuals_to_display,
    display,     \* run's parameter
    avail_shap,  \* _generate_saliencies' locals: shap_cfs at line 158
    avail_lime,  \*                               lime_cfs at line 159
    shap_cfs,    \*                               shap_cfs at line 175
    lime_cfs,    \*                               lime_cfs at line 175
    shap_saliencies,
    lime_saliencies,
    cfdict,
    cf_data_source,
    plots,       \* run's local
    result,      \* what run returned
    error,       \* the exception run raised
    stages,      \* history: the stages run has entered
    rendered     \* history: completed show() calls

vars == <<pc, kwargs, fraction_counterfactuals_to_display, display,
          avail_shap, avail_lime, shap_cfs, lime_cfs, shap_saliencies,
          lime_saliencies, cfdict, cf_data_source, plots, result, error,
          stages, rendered>>

None == "None"

\* ---- __init__ -------------------------------------------------------------
\* variant: the lower clamp is missing
ClampFractionUpperOnly(arg) ==
    Min(FracDen, IF arg = NoArg THEN DefaultFraction ELSE arg)

\* max(0, min(1, kwargs.get("fraction_counterfactuals_to_display", 0.1)))
ClampFraction(arg) ==
    Max(0, Min(FracDen, IF arg = NoArg THEN DefaultFraction ELSE arg))

Init ==
    \E arg \in FractionArgs :
        /\ kwargs = arg
        /\ fraction_counterfactuals_to_display = ClampFraction(arg)
        /\ pc = "idle"
        /\ display = FALSE
        /\ avail_shap = <<>> /\ avail_lime = <<>>
        /\ shap_cfs = <<>> /\ lime_cfs = <<>>
        /\ shap_saliencies = None /\ lime_saliencies = None
        /\ cfdict = None
        /\ cf_data_source = None
        /\ plots = None /\ result = None /\ error = None
        /\ stages = <<>>
        /\ rendered = 0

\* ---- _generate_saliencies --------------------------------------------------
\* variant: the fraction of the count is compared with one
SubsampleBranchScaled(n_shap, n_lime, fraction) ==
    (n_shap + n_lime) * fraction > FracDen

\* len(shap_cfs) + len(lime_cfs) > self.fraction_counterfactuals_to_display
SubsampleBranch(n_shap, n_lime, fraction) ==
    (n_shap + n_lime) * FracDen > fraction

\* int(self.fraction_counterfactuals_to_display * len(cfs))
SampleSize(fraction, n) == (fraction * n) \div FracDen

\* np.random.choice(np.arange(0, n), size): every index vector, with
\* replacement (indices are 1-based here)
RandomChoice(n, size) == [1..size -> 1..n]

\* [cfs[i] for i in idxs]
TakeIdxs(cfs, idxs) == [i \in 1..Len(idxs) |-> cfs[idxs[i]]]

\* A dict is the sequence of its items in insertion order.
DictKeys(d) == {d[i].key : i \in 1..Len(d)}
DictGet(d, k) == d[CHOOSE i \in 1..Len(d) : d[i].key = k]

\* variant: a list of items instead of a dict
DictSetAppend(d, item) == Append(d, item)

\* d[k] = v: a present key keeps its place and takes the new value
DictSet(d, item) ==
    IF item.key \in DictKeys(d)
    THEN [i \in 1..Len(d) |-> IF d[i].key = item.key THEN item ELSE d[i]]
    ELSE Append(d, item)

\* {e.getKey(): [source, e.getValue()] for e in cfs}
RECURSIVE DictOfCfs(_, _)
DictOfCfs(cfs, source) ==
    IF cfs = <<>>
    THEN <<>>
    ELSE DictSet(DictOfCfs(SubSeq(cfs, 1, Len(cfs) - 1), source),
                 [key |-> cfs[Len(cfs)].key, source |-> source,
                  value |-> cfs[Len(cfs)].value])

\* d.update(other)
RECURSIVE DictUpdate(_, _)
DictUpdate(d, other) ==
    IF other = <<>>
    THEN d
    ELSE DictSet(DictUpdate(d, SubSeq(other, 1, Len(other) - 1)),
                 other[Len(other)])

\* variant: the SHAP items are written last
BuildCfdictShapLast(shap, lime) ==
    DictUpdate(DictOfCfs(lime, "LIME"), DictOfCfs(shap, "SHAP"))

\* lines 175-177
BuildCfdict(shap, lime) ==
    DictUpdate(DictOfCfs(shap, "SHAP"), DictOfCfs(lime, "LIME"))

\* lines 163-173: the lists after the optional subsampling
Subsample(cfs, idxs, taken) == IF taken THEN TakeIdxs(cfs, idxs) ELSE cfs

GenerateSaliencies ==
    /\ pc = "explain"
    /\ stages' = Append(stages, "EXPLAIN")
    /\ \/ \* an explainer raises
          /\ pc' = "raised"
          /\ error' = "ExplainerError"
          /\ UNCHANGED <<avail_shap, avail_lime, shap_cfs, lime_cfs,
                         shap_saliencies, lime_saliencies, cfdict>>
       \/ \E all_shap \in SeqsUpTo(Entries, MaxCfs) :
          \E all_lime \in SeqsUpTo(Entries, MaxCfs - Len(all_shap)) :
            LET f == fraction_counterfactuals_to_display
                taken == SubsampleBranch(Len(all_shap), Len(all_lime), f)
            IN \E shap_cf_idxs \in
                    RandomChoice(Len(all_shap), SampleSize(f, Len(all_shap))) :
               \E lime_cf_idxs \in
                    RandomChoice(Len(all_lime), SampleSize(f, Len(all_lime))) :
                 /\ shap_saliencies' = "SaliencyResults"
                 /\ lime_saliencies' = "SaliencyResults"
                 /\ avail_shap' = all_shap
                 /\ avail_lime' = all_lime
                 /\ shap_cfs' = Subsample(all_shap, shap_cf_idxs, taken)
                 /\ lime_cfs' = Subsample(all_lime, lime_cf_idxs, taken)
                 /\ cfdict' = BuildCfdict(shap_cfs', lime_cfs')
                 /\ pc' = "tabulate"
                 /\ error' = error
    /\ UNCHANGED <<kwargs, fraction_counterfactuals_to_display, display,
                   cf_data_source, plots, result, rendered>>

\* ---- _generate_counterfactual_datasource -----------------------------------
\* formatted_features[fname]
formatted_features(i) == formatter(InputFeatureValue(i))

\* "{} from {}".format(output_html(oname), bold_red_html(original value))
output_column_name(j) ==
    [name |-> Text(OutputNames[j]), from |-> formatter(OutputValue(j))]

\* lines 215-227, raw_tooltip: one row per feature whose mask bit is false
RECURSIVE RawTooltip(_, _, _)
RawTooltip(prediction, preservation_mask, n) ==
    IF n = 0
    THEN <<>>
    ELSE RawTooltip(prediction, preservation_mask, n - 1)
         \o (IF ~preservation_mask[n]
             THEN <<tooltip_format(
                      <<Text(FeatureNames[n]), formatted_features(n),
                        formatter(PredictionFeature(prediction, n))>>)>>
             ELSE <<>>)

\* lines 215-227, original_tooltip: one row per feature
OriginalTooltip(prediction) ==
    [i \in 1..NumFeatures |->
        original_feature_tooltip_format(
            <<Text(FeatureNames[i]), formatted_features(i),
              formatter(PredictionFeature(prediction, i))>>)]

\* lines 212, 218-219: the number of features whose mask bit is false
Differences(preservation_mask) ==
    Cardinality({i \in 1..NumFeatures : ~preservation_mask[i]})

\* variant: the two tooltips are swapped
BuildRowSwapped(item) ==
    LET differences == Differences(item.value)
        raw_tooltip ==
            RawTooltip(item.key, item.value, NumFeatures)
            \o <<original_feature_tooltip_format(
                   <<Text("Found by"), Text(item.source), Empty, Empty>>)>>
    IN [outputs |-> [j \in 1..NumOutputs |-> PredictionOutput(item.key, j)],
        TooltipRaw |-> IF differences = 0
                       THEN raw_tooltip
                       ELSE OriginalTooltip(item.key),
        Unchanged |-> differences = 0,
        Diff |-> differences]

\* lines 207-236: the row of one cfdict item
BuildRow(item) ==
    LET differences == Differences(item.value)
        raw_tooltip ==
            RawTooltip(item.key, item.value, NumFeatures)
            \o <<original_feature_tooltip_format(
                   <<Text("Found by"), Text(item.source), Empty, Empty>>)>>
    IN [outputs |-> [j \in 1..NumOutputs |-> PredictionOutput(item.key, j)],
        TooltipRaw |-> IF differences = 0
                       THEN OriginalTooltip(item.key)
                       ELSE raw_tooltip,
        Unchanged |-> differences = 0,
        Diff |-> differences]

\* DataFrame.drop_duplicates(): the first of equal rows is kept
RECURSIVE DropDuplicates(_)
DropDuplicates(rows) ==
    IF rows = <<>>
    THEN <<>>
    ELSE LET front == SubSeq(rows, 1, Len(rows) - 1)
             last == rows[Len(rows)]
         IN IF \E i \in 1..Len(front) : front[i] = last
            THEN DropDuplicates(front)
            ELSE Append(DropDuplicates(front), last)

\* lines 240-249: the jitter column and one tooltip column per output.  The
\* jitter is Diff plus a draw from [0, 1/3), kept symbolic.
AddColumns(row) ==
    [outputs |-> row.outputs,
     TooltipRaw |-> row.TooltipRaw,
     Unchanged |-> row.Unchanged,
     Diff |-> row.Diff,
     DiffJittered |-> [diff |-> row.Diff, plus |-> "rand/3"],
     Tooltip |-> [j \in 1..NumOutputs |->
                    format_cf_tooltip(row.TooltipRaw, output_column_name(j),
                                      row.outputs[j], row.Unchanged)]]

\* variant: a row for the explained observation is put first
DataSourceWithOriginal(d) ==
    LET original ==
            [outputs |-> [j \in 1..NumOutputs |-> OutputValue(j)],
             TooltipRaw |-> [i \in 1..NumFeatures |->
                               original_feature_tooltip_format(
                                   <<Text(FeatureNames[i]),
                                     formatted_features(i), Empty>>)],
             Unchanged |-> TRUE,
             Diff |-> 0]
        rows == <<original>> \o [i \in 1..Len(d) |-> BuildRow(d[i])]
        data_source == DropDuplicates(rows)
    IN [i \in 1..Len(data_source) |-> AddColumns(data_source[i])]

\* lines 182-251
DataSource(d) ==
    LET rows == [i \in 1..Len(d) |-> BuildRow(d[i])]
        data_source == DropDuplicates(rows)
    IN [i \in 1..Len(data_source) |-> AddColumns(data_source[i])]

\* variant: an empty table is accepted
GenerateCounterfactualDatasourceEmptyOk ==
    /\ pc = "tabulate"
    /\ stages' = Append(stages, "TABULATE")
    /\ cf_data_source' = DataSource(cfdict)
    /\ pc' = "compose"
    /\ error' = error
    /\ avail_shap' = <<>> /\ avail_lime' = <<>>
    /\ shap_cfs' = <<>> /\ lime_cfs' = <<>>
    /\ UNCHANGED <<kwargs, fraction_counterfactuals_to_display, display,
                   shap_saliencies, lime_saliencies, cfdict, plots, result,
                   rendered>>

GenerateCounterfactualDatasource ==
    /\ pc = "tabulate"
    /\ stages' = Append(stages, "TABULATE")
    /\ IF cfdict = <<>>
       THEN \* pd.DataFrame([]) has no "Diff" column: line 241 raises
            /\ pc' = "raised"
            /\ error' = "KeyError"
            /\ UNCHANGED cf_data_source
       ELSE /\ cf_data_source' = DataSource(cfdict)
            /\ pc' = "compose"
            /\ error' = error
    \* the locals of _generate_saliencies are gone
    /\ avail_shap' = <<>> /\ avail_lime' = <<>>
    /\ shap_cfs' = <<>> /\ lime_cfs' = <<>>
    /\ UNCHANGED <<kwargs, fraction_counterfactuals_to_display, display,
                   shap_saliencies, lime_saliencies, cfdict, plots, result,
                   rendered>>

\* ---- _get_byproduct_cf_plot, _get_plots --------------------------------------
\* lines 255-293: one scatter plot per output of the first key of cfdict
ByproductCfPlot(d, data_source) ==
    [j \in 1..NumOutputs |->
        [x |-> output_column_name(j), y |-> "Diff Jittered",
         tooltips |-> OutputNames[j], rows |-> Len(data_source)]]

\* lines 298-355: a tab per output with the LIME, SHAP and counterfactual tabs
FullDash(cf_figures) ==
    [tabs |-> [j \in 1..Len(cf_figures) |->
                 [title |-> OutputNames[j],
                  children |-> <<"LIME", "SHAP", cf_figures[j]>>]]]

\* variant: a failed plotting call is swallowed and run goes on
GetPlotsSwallow ==
    /\ pc = "compose"
    /\ stages' = Append(stages, "COMPOSE")
    /\ \/ /\ pc' = "display"
          /\ error' = "PlotError"
          /\ plots' = FullDash(<<>>)
       \/ /\ plots' = FullDash(ByproductCfPlot(cfdict, cf_data_source))
          /\ pc' = "display"
          /\ error' = error
    /\ UNCHANGED <<kwargs, fraction_counterfactuals_to_display, display,
                   avail_shap, avail_lime, shap_cfs, lime_cfs,
                   shap_saliencies, lime_saliencies, cfdict, cf_data_source,
                   result, rendered>>

GetPlots ==
    /\ pc = "compose"
    /\ stages' = Append(stages, "COMPOSE")
    /\ IF cfdict = <<>>
       THEN \* list(self.cfdict.keys())[0]
            /\ pc' = "raised"
            /\ error' = "IndexError"
            /\ UNCHANGED plots
       ELSE \/ \* a plotting call of the explainers or of bokeh raises
               /\ pc' = "raised"
               /\ error' = "PlotError"
               /\ UNCHANGED plots
            \/ /\ plots' = FullDash(ByproductCfPlot(cfdict, cf_data_source))
               /\ pc' = "display"
               /\ error' = error
    /\ UNCHANGED <<kwargs, fraction_counterfactuals_to_display, display,
                   avail_shap, avail_lime, shap_cfs, lime_cfs,
                   shap_saliencies, lime_saliencies, cfdict, cf_data_source,
                   result, rendered>>

\* ---- run -------------------------------------------------------------------
\* the caller invokes run(display)
Run ==
    /\ pc = "idle"
    /\ \E d \in BOOLEAN : display' = d
    /\ pc' = "explain"
    /\ UNCHANGED <<kwargs, fraction_counterfactuals_to_display, avail_shap,
                   avail_lime, shap_cfs, lime_cfs, shap_saliencies,
                   lime_saliencies, cfdict, cf_data_source, plots, result,
                   error, stages, rendered>>

\* variant: show is called whatever display says
ShowIgnoringDisplay ==
    /\ pc = "display"
    /\ stages' = Append(stages, "DISPLAY")
    /\ rendered' = rendered + 1
    /\ pc' = "return"
    /\ UNCHANGED <<kwargs, fraction_counterfactuals_to_display, display,
                   avail_shap, avail_lime, shap_cfs, lime_cfs,
                   shap_saliencies, lime_saliencies, cfdict, cf_data_source,
                   plots, result, error>>

\* lines 371-372: if display: show(plots)
Show ==
    /\ pc = "display"
    /\ display
    /\ stages' = Append(stages, "DISPLAY")
    /\ \/ /\ rendered' = rendered + 1
          /\ pc' = "return"
          /\ error' = error
       \/ \* show raises
          /\ pc' = "raised"
          /\ error' = "ShowError"
          /\ UNCHANGED rendered
    /\ UNCHANGED <<kwargs, fraction_counterfactuals_to_display, display,
                   avail_shap, avail_lime, shap_cfs, lime_cfs,
                   shap_saliencies, lime_saliencies, cfdict, cf_data_source,
                   plots, result>>

\* line 373: return plots
Return ==
    /\ \/ pc = "return"
       \/ pc = "display" /\ ~display
    /\ result' = plots
    /\ pc' = "returned"
    /\ UNCHANGED <<kwargs, fraction_counterfactuals_to_display, display,
                   avail_shap, avail_lime, shap_cfs, lime_cfs,
                   shap_saliencies, lime_saliencies, cfdict, cf_data_source,
                   plots, error, stages, rendered>>

Next ==
    \/ Run
    \/ GenerateSaliencies
    \/ GenerateCounterfactualDatasource
    \/ GetPlots
    \/ Show
    \/ Return

Spec == Init /\ [][Next]_vars

\* ---- properties ---------------------------------------------------------------
Fraction == fraction_counterfactuals_to_display

\* _generate_saliencies has returned and run has not gone on yet
Explained == pc = "tabulate"
\* cf_data_source has been built
Tabulated == pc \in {"compose", "display", "return", "returned"}
\* _generate_saliencies returned with nothing sampled
SampledEmpty == shap_saliencies # None /\ cfdict = <<>>

Last(seq) == seq[Len(seq)]
IsPrefix(a, b) == Len(a) <= Len(b) /\ a = SubSeq(b, 1, Len(a))
\* the position of the last record of cfs with key k
LastWithKey(cfs, k) ==
    CHOOSE i \in 1..Len(cfs) :
        /\ cfs[i].key = k
        /\ \A j \in (i + 1)..Len(cfs) : cfs[j].key # k
KeysOf(cfs) == {cfs[i].key : i \in 1..Len(cfs)}
ChangedFeatures(mask) == {n \in 1..NumFeatures : ~mask[n]}

\* C1: after _generate_saliencies the sampled SHAP list has floor(f * n_s)
\* entries and the sampled LIME list floor(f * n_l) entries, f the display
\* fraction and n_s, n_l the numbers of counterfactuals the explainers found,
\* whether or not the lists were subsampled.
C1_SampledCounts ==
    Explained =>
        /\ Len(shap_cfs) * FracDen <= Fraction * Len(avail_shap)
        /\ Fraction * Len(avail_shap) < (Len(shap_cfs) + 1) * FracDen
        /\ Len(lime_cfs) * FracDen <= Fraction * Len(avail_lime)
        /\ Fraction * Len(avail_lime) < (Len(lime_cfs) + 1) * FracDen

\* C1 witness: half of two SHAP counterfactuals is displayed
C1_Witness ==
    /\ Explained
    /\ Fraction * 2 = FracDen
    /\ Len(avail_shap) = 2
    /\ Len(shap_cfs) = 1

\* C2: with display fraction 1, every counterfactual the explainers found
\* is in the sampled list of its explainer, whatever indices were drawn.
C2_FullSetRetained ==
    (Explained /\ Fraction = FracDen) =>
        /\ \A i \in 1..Len(avail_shap) :
               \E j \in 1..Len(shap_cfs) : shap_cfs[j] = avail_shap[i]
        /\ \A i \in 1..Len(avail_lime) :
               \E j \in 1..Len(lime_cfs) : lime_cfs[j] = avail_lime[i]

\* C3: when run returns, it returns the composed tab layout, for display
\* true and for display false; show has completed once if display is true,
\* and it is never called if display is false.
C3_RunReturnsLayout ==
    /\ pc = "returned" =>
          /\ result = FullDash(ByproductCfPlot(cfdict, cf_data_source))
          /\ rendered = (IF display THEN 1 ELSE 0)
    /\ ~display => rendered = 0 /\ "DISPLAY" \notin {stages[i] : i \in 1..Len(stages)}
    /\ rendered <= 1

\* C3 witness: run(display=True) has rendered and returned
C3_Witness == pc = "returned" /\ display /\ rendered = 1

\* C4: the stored display fraction is in [0,1]: an argument below 0 gives 0,
\* one above 1 gives 1, one inside is kept, an omitted one gives 0.1; this
\* stays so through every step of run.
C4_FractionClamped ==
    /\ Fraction \in 0..FracDen
    /\ kwargs = NoArg => Fraction = DefaultFraction
    /\ (kwargs # NoArg /\ kwargs < 0) => Fraction = 0
    /\ (kwargs # NoArg /\ kwargs > FracDen) => Fraction = FracDen
    /\ kwargs \in 0..FracDen => Fraction = kwargs

\* C4 witness: run has returned on an object built with a fraction above 1
C4_Witness ==
    pc = "returned" /\ kwargs # NoArg /\ kwargs > FracDen /\ Fraction = FracDen

\* the <tr> rows of a tooltip, without header and table tokens
TableRows(tooltip) ==
    SelectSeq(tooltip, LAMBDA t : t.fmt \in {"tr_changed", "tr_original"})

\* the tooltip as the claim describes it for a record of the given source
\* and mask
TooltipAsClaimed(tooltip, source, mask) ==
    LET changed == ChangedFeatures(mask)
        trs == TableRows(tooltip)
    IN IF changed = {}
       THEN tooltip[1].fmt = "h3" /\ tooltip[1].name = Text("Original Input")
       ELSE /\ tooltip[1].fmt = "h3"
            /\ tooltip[1].name = Text("Counterfactual")
            /\ Len(trs) = Cardinality(changed) + 1
            /\ \A n \in changed :
                   \E k \in 1..(Len(trs) - 1) :
                       /\ trs[k].fmt = "tr_changed"
                       /\ trs[k].name = Text(FeatureNames[n])
            /\ \A k \in 1..(Len(trs) - 1) :
                   \E n \in changed : trs[k].name = Text(FeatureNames[n])
            /\ Last(trs).name = Text("Found by")
            /\ Last(trs).from = Text(source)
            /\ tooltip[Len(tooltip) - 1] = Last(trs)

\* C5: every counterfactual record has a table row with its outputs and its
\* diff count whose tooltips, one per output, are as claimed: the
\* "Original Input" header if no feature changed, else the "Counterfactual"
\* header, one row for each changed feature and no other, and a last row
\* "Found by" naming the record's explainer; and every row of the table
\* carries the header that goes with its diff count.
C5_TooltipByDiff ==
    Tabulated =>
        /\ \A i \in 1..Len(cfdict) :
               \E r \in 1..Len(cf_data_source) :
                   LET row == cf_data_source[r]
                   IN /\ row.Diff = Cardinality(ChangedFeatures(cfdict[i].value))
                      /\ row.Unchanged = (row.Diff = 0)
                      /\ \A j \in 1..NumOutputs :
                             /\ row.outputs[j] = PredictionOutput(cfdict[i].key, j)
                             /\ TooltipAsClaimed(row.Tooltip[j],
                                                 cfdict[i].source,
                                                 cfdict[i].value)
        /\ \A r \in 1..Len(cf_data_source) :
               \A j \in 1..NumOutputs :
                   LET t == cf_data_source[r].Tooltip[j]
                   IN IF cf_data_source[r].Diff = 0
                      THEN t[1].name = Text("Original Input")
                      ELSE /\ t[1].name = Text("Counterfactual")
                           /\ Len(TableRows(t)) = cf_data_source[r].Diff + 1
                           /\ Last(TableRows(t)).name = Text("Found by")

\* C5 witness: the table holds an unchanged record and a record with one
\* changed feature
C5_Witness ==
    /\ Tabulated
    /\ \E i, k \in 1..Len(cfdict) :
           /\ ChangedFeatures(cfdict[i].value) = {}
           /\ Cardinality(ChangedFeatures(cfdict[k].value)) = 1

\* C6: the counterfactual dictionary has at most as many entries as the two
\* sampled lists together, and fewer exactly when two sampled records have
\* the same prediction key.
C6_DictSize ==
    Explained =>
        LET sampled == shap_cfs \o lime_cfs
            collision == \E i, j \in 1..Len(sampled) :
                             i # j /\ sampled[i].key = sampled[j].key
        IN /\ Len(cfdict) <= Len(sampled)
           /\ (Len(cfdict) < Len(sampled)) <=> collision

\* C6 witness: a SHAP and a LIME record with the same key give one entry
C6_Witness ==
    /\ Explained
    /\ Len(shap_cfs) = 1 /\ Len(lime_cfs) = 1
    /\ shap_cfs[1].key = lime_cfs[1].key
    /\ Len(cfdict) = 1

\* C7 as claimed: once nothing was sampled, run has failed with an index
\* error raised in plot composition, has returned nothing and has not
\* rendered.
C7_IndexErrorInCompose ==
    (SampledEmpty /\ ~Explained) =>
        /\ pc = "raised"
        /\ error = "IndexError"
        /\ Last(stages) = "COMPOSE"
        /\ rendered = 0
        /\ result = None

\* C7 amended: once nothing was sampled, run has failed with a key error
\* raised in the table builder (the empty table has no Diff column); plot
\* composition is not reached, nothing is returned, nothing is rendered.
C7_KeyErrorInTabulate ==
    (SampledEmpty /\ ~Explained) =>
        /\ pc = "raised"
        /\ error = "KeyError"
        /\ stages = <<"EXPLAIN", "TABULATE">>
        /\ rendered = 0
        /\ result = None

\* C7 witness: run failed on an empty sample taken with display fraction 0
C7_Witness ==
    /\ SampledEmpty
    /\ pc = "raised"
    /\ Fraction = 0

\* C8 as claimed: the table of a non-empty dictionary has a row for the
\* explained observation, a row with diff count 0.
C8_OriginalRowPresent ==
    Tabulated =>
        \E r \in 1..Len(cf_data_source) :
            cf_data_source[r].Diff = 0 /\ cf_data_source[r].Unchanged

\* C8 amended: the table is built from the dictionary's records only: every
\* row has the outputs and the diff count of some record, every record has
\* its row, and a row with diff count 0 is there exactly when some record's
\* mask marks no feature as changed.
C8_RowsFromRecordsOnly ==
    Tabulated =>
        LET IsRowOf(row, item) ==
                /\ row.Diff = Cardinality(ChangedFeatures(item.value))
                /\ row.Unchanged = (ChangedFeatures(item.value) = {})
                /\ \A j \in 1..NumOutputs :
                       row.outputs[j] = PredictionOutput(item.key, j)
        IN /\ \A r \in 1..Len(cf_data_source) :
                  \E i \in 1..Len(cfdict) : IsRowOf(cf_data_source[r], cfdict[i])
           /\ \A i \in 1..Len(cfdict) :
                  \E r \in 1..Len(cf_data_source) : IsRowOf(cf_data_source[r], cfdict[i])
           /\ Len(cf_data_source) <= Len(cfdict)
           /\ (\E r \in 1..Len(cf_data_source) : cf_data_source[r].Diff = 0)
              <=> (\E i \in 1..Len(cfdict) : ChangedFeatures(cfdict[i].value) = {})

\* C8 witness: a table of two changed records, without a row of diff count 0
C8_Witness ==
    /\ Tabulated
    /\ Len(cfdict) = 2
    /\ Len(cf_data_source) = 2
    /\ \A r \in 1..Len(cf_data_source) : cf_data_source[r].Diff > 0

\* C9: each key of the sampled lists has one dictionary entry; a key of the
\* sampled LIME list has explainer "LIME" and the mask of the last LIME
\* record with that key, any other key has explainer "SHAP" and the mask of
\* the last SHAP record with that key.
C9_LastWriteWins ==
    Explained =>
        /\ DictKeys(cfdict) = KeysOf(shap_cfs) \cup KeysOf(lime_cfs)
        /\ \A i, j \in 1..Len(cfdict) : cfdict[i].key = cfdict[j].key => i = j
        /\ \A i \in 1..Len(cfdict) :
               LET k == cfdict[i].key
               IN IF k \in KeysOf(lime_cfs)
                  THEN /\ cfdict[i].source = "LIME"
                       /\ cfdict[i].value = lime_cfs[LastWithKey(lime_cfs, k)].value
                  ELSE /\ cfdict[i].source = "SHAP"
                       /\ cfdict[i].value = shap_cfs[LastWithKey(shap_cfs, k)].value

\* C9 witness: a SHAP and a LIME record with one key and different masks
C9_Witness ==
    /\ Explained
    /\ \E i \in 1..Len(shap_cfs) : \E j \in 1..Len(lime_cfs) :
           /\ shap_cfs[i].key = lime_cfs[j].key
           /\ shap_cfs[i].value # lime_cfs[j].value

\* C10: the stages of a run are entered in the order EXPLAIN, TABULATE,
\* COMPOSE, then DISPLAY (display true) or the return, each at most once; a
\* stage is entered only while no stage has failed; a failed stage is the
\* last one of the run, and a failed run returns nothing and renders nothing.
C10_StageOrder ==
    /\ IsPrefix(stages, <<"EXPLAIN", "TABULATE", "COMPOSE", "DISPLAY">>)
    /\ (stages # <<>> /\ Last(stages) = "DISPLAY") => display
    /\ (error # None) <=> (pc = "raised")
    /\ pc = "raised" =>
          /\ rendered = 0
          /\ result = None
          /\ stages # <<>>
          /\ error = (CASE Last(stages) = "EXPLAIN" -> "ExplainerError"
                        [] Last(stages) = "TABULATE" -> "KeyError"
                        [] Last(stages) = "COMPOSE" -> "PlotError"
                        [] Last(stages) = "DISPLAY" -> "ShowError")
    /\ pc = "returned" =>
          stages = (IF display
                    THEN <<"EXPLAIN", "TABULATE", "COMPOSE", "DISPLAY">>
                    ELSE <<"EXPLAIN", "TABULATE", "COMPOSE">>)
    /\ pc = "explain" => stages = <<>>
    /\ pc = "tabulate" => stages = <<"EXPLAIN">>
    /\ pc = "compose" => stages = <<"EXPLAIN", "TABULATE">>
    /\ pc = "display" => stages = <<"EXPLAIN", "TABULATE", "COMPOSE">>

\* C10 witness: a run that failed in plot composition
C10_Witness ==
    /\ pc = "raised"
    /\ error = "PlotError"
    /\ stages = <<"EXPLAIN", "TABULATE", "COMPOSE">>

====
